---------------------------- MODULE Spec2Model ----------------------------
(***************************************************************************)
(* Model of the rate-limited request scheduler of cs_ner_local:            *)
(*   processor.py  process_api_requests (the control loop),                *)
(*                 APIRequest.call_api (one outbound call and its          *)
(*                 completion), CheckpointManager (save / load / cleanup)  *)
(*   utils.py      StatusTracker, count_tokens                             *)
(*                                                                         *)
(* Execution model (asyncio, one thread): the control loop runs from one   *)
(* await to the next without interruption; a call's completion (the code   *)
(* of call_api after its await) runs whole, and only while the loop is     *)
(* suspended in one of its three sleeps.  One action of the model is one   *)
(* such uninterrupted piece.                                               *)
(*                                                                         *)
(* Numbers.  Time is in seconds, read on a grid of TimeStep seconds; a     *)
(* sleep shorter than the grid step may take zero grid time.  The two      *)
(* budget levels are floats in the code; the model keeps them exactly, as  *)
(* integers in units of 1/60 (level * SECONDS_PER_MINUTE), so the refill   *)
(* max * dt / 60.0 is the integer max * dt.                                *)
(***************************************************************************)
EXTENDS Integers, Sequences, FiniteSets, TLC

(***************************************************************************)
(* Bounds of the model.                                                    *)
(***************************************************************************)
MaxItems == 5          \* rows of data_df: 0 .. MaxItems
MaxAttempts == 3       \* max_attempts: 0 .. MaxAttempts
MaxCalls == 4          \* batches * (1 + max_attempts), the calls a run can make
TimeStep == 30         \* seconds between two readings of the clock grid
MaxTicks == 1          \* the clock advances this many times, then stops
MaxRestarts == 1       \* process kills followed by a new run
MaxItemsReliable == 7  \* rows of data_df in the runs against a reliable endpoint
SystemMsgLen == 4      \* characters of system_msg
ItemTextLen == 6       \* characters one item adds to the user message
LongItemTextLen == 2000 \* characters an item with a long content adds to it
MaxResumeIdx == 4      \* processed_batch_idx of the checkpoint a run starts from
MaxItemsLive == 3      \* rows of data_df in the runs checked for termination
MaxAttemptsLive == 1   \* max_attempts in the runs checked for termination

(***************************************************************************)
(* Module constants of processor.py.  BATCH_SIZE (5 in the source) and     *)
(* CHECKPOINT_INTERVAL (10 in the source) are scaled down so that several  *)
(* batches and several checkpoints fit in a checkable run; no definition   *)
(* below depends on their particular values.                               *)
(***************************************************************************)
BATCH_SIZE == 2
CHECKPOINT_INTERVAL == 2
SECONDS_TO_PAUSE_AFTER_RATE_LIMIT == 15
SECONDS_PER_MINUTE == 60
TOKENS_PER_ITEM == 100

VARIABLES
    \* ---- arguments of process_api_requests (fixed during a run)
    num_items,                  \* len(data_df); item i carries identifier i
    max_attempts,
    max_requests_per_minute,
    max_tokens_per_minute,
    input_file,                 \* TRUE iff input_file is non-empty (checkpointing on)
    long_item,                  \* the item of data_df with a long content, or NoId
    \* ---- environment
    now,                        \* what time.time() returns
    checkpoint_file,            \* content of the checkpoint file, or NoFile
    restarts,                   \* process kills so far
    \* ---- locals of process_api_requests
    pc,                         \* where the control loop is
    next_request,
    queue_of_requests_to_retry,
    next_task_id,               \* task_id_generator
    status_tracker,
    available_request_capacity, \* in 1/60 of a request
    available_token_capacity,   \* in 1/60 of a token
    last_update_time,
    all_results,
    batch_idx,
    batches_exhausted,
    last_checkpoint_batch,
    wake_time,                  \* when the cooldown sleep in progress ends
    \* ---- the requests (APIRequest objects), by task_id
    batch_items,                \* index in `batches` of the request's batch
    attempts_left,
    error_msg,
    in_flight,                  \* task_ids whose call_api awaits its reply
    \* ---- bookkeeping of the run, not read by the program
    start_idx,                  \* batch_idx the run started from
    loaded,                     \* TRUE iff the run loaded a checkpoint
    num_calls,                  \* task_id -> number of times call_api was started
    parse_failures,             \* replies so far that json.loads rejected
    calls_at,                   \* time -> calls dispatched at that time, last minute only
    tokens_at                   \* time -> token estimates dispatched then, last minute only

inputs == <<num_items, max_attempts, max_requests_per_minute,
            max_tokens_per_minute, input_file, long_item>>
environment == <<now, checkpoint_file, restarts>>
locals == <<pc, next_request, queue_of_requests_to_retry, next_task_id,
            status_tracker, available_request_capacity,
            available_token_capacity, last_update_time, all_results,
            batch_idx, batches_exhausted, last_checkpoint_batch, wake_time>>
requests == <<batch_items, attempts_left, error_msg, in_flight>>
history == <<start_idx, loaded, num_calls, parse_failures, calls_at,
             tokens_at>>
vars == <<inputs, environment, locals, requests, history>>

MaxTime == TimeStep * (1 + MaxTicks)

NoRequest == -1
NoFile == [exists |-> FALSE, results |-> <<>>, processed_batch_idx |-> 0,
           total_batches |-> 0]
NoId == 0
NoBatch == -1

Min(a, b) == IF a <= b THEN a ELSE b
Max(a, b) == IF a >= b THEN a ELSE b

(***************************************************************************)
(* The (max_requests_per_minute, max_tokens_per_minute) pairs the runs are *)
(* checked with: request limits that bind, limits that do not, a token     *)
(* limit that admits one full batch at a time, and a token limit below the *)
(* estimate of a full batch.                                               *)
(***************************************************************************)
Limits == { <<1, 1000>>, <<2, 1000>>, <<60, 1000>>, <<60, 300>>, <<60, 150>> }

(***************************************************************************)
(* utils.count_tokens: the fallback estimate max(1, len(text) // 2).       *)
(***************************************************************************)
count_tokens(len) == Max(1, len \div 2)

(***************************************************************************)
(* Batches: data_df.iloc[i : i + BATCH_SIZE] for i = 0, BATCH_SIZE, ...    *)
(* A batch is the sequence of its items' identifiers.                      *)
(***************************************************************************)
NumBatches(n) == (n + BATCH_SIZE - 1) \div BATCH_SIZE

Batch(n, i) ==
    [k \in 1 .. (Min((i + 1) * BATCH_SIZE, n) - i * BATCH_SIZE)
        |-> i * BATCH_SIZE + k]

TotalBatches == NumBatches(num_items)
\* the batch of request `task`: the requests are built from consecutive
\* batches, the first from batches[start_idx] (lines 244-256)
BatchOf(task) == Batch(num_items, start_idx + task)
TaskIds == 0 .. (NumBatches(Max(MaxItems, MaxItemsReliable)) - 1)
Clock == { TimeStep * k : k \in 1 .. (1 + MaxTicks) }

(***************************************************************************)
(* token_count of a fresh request (the control loop, "approximate token    *)
(* count"): count_tokens(system_msg) + count_tokens(user_msg) + 100 * len. *)
(* The user message has one line per item of the batch, as long as the     *)
(* item's content.                                                         *)
(***************************************************************************)
ItemLen(id) == IF id = long_item THEN LongItemTextLen ELSE ItemTextLen

\* the sum of ItemLen over the batch (the items of a batch are distinct)
UserMsgLen(batch) ==
    ItemTextLen * Len(batch)
        + (IF \E k \in 1 .. Len(batch) : batch[k] = long_item
           THEN ItemLen(long_item) - ItemTextLen ELSE 0)

token_count(batch) ==
    count_tokens(SystemMsgLen) + count_tokens(UserMsgLen(batch))
        + TOKENS_PER_ITEM * Len(batch)

\* token_count of the request's batch (its value, computed once)
token_consumption(task) ==
    CHOOSE c \in { token_count(batch) : batch \in {BatchOf(task)} } : TRUE

(***************************************************************************)
(* Result records.  A record of a reply carries whatever identifier the    *)
(* model wrote; a fallback record carries the item's identifier, null      *)
(* labels and the error text.                                              *)
(***************************************************************************)
Labelled(id) == [id |-> id, levels |-> "labels", error |-> "none"]
Fallback(id, text) == [id |-> id, levels |-> "null", error |-> text]

MapSeq(Op(_), seq) == [k \in 1 .. Len(seq) |-> Op(seq[k])]

(***************************************************************************)
(* What one outbound call can come back with: an exception of the client   *)
(* (its text decides the rate-limit classification), or a text that        *)
(* json.loads rejects, parses to a non-list, or parses to a list.  The     *)
(* lists tried for a batch: the faithful reply, one record short, one      *)
(* record long, and a reply of the right length whose first record has no  *)
(* identifier and whose other records repeat the batch's first one.        *)
(***************************************************************************)
ErrorTexts == {"Connection error", "Rate limit reached"}

Lower(text) ==
    CASE text = "Connection error" -> "connection error"
      [] text = "Rate limit reached" -> "rate limit reached"
      [] OTHER -> text

ContainsRateLimit(text) == text \in {"rate limit reached"}

ReplyLists(batch) ==
    { MapSeq(Labelled, batch),
      MapSeq(Labelled, SubSeq(batch, 1, Len(batch) - 1)),
      MapSeq(Labelled, Append(batch, NoId)),
      [k \in 1 .. Len(batch) |-> Labelled(IF k = 1 THEN NoId ELSE batch[1])] }

Outcomes(batch) ==
    { [kind |-> "raise", text |-> t, json |-> "none", parsed |-> <<>>] :
          t \in ErrorTexts }
    \cup { [kind |-> "text", text |-> "", json |-> j, parsed |-> <<>>] :
          j \in {"invalid", "object"} }
    \cup { [kind |-> "text", text |-> "", json |-> "list", parsed |-> l] :
          l \in ReplyLists(batch) }

(***************************************************************************)
(* call_api, lines 123-155: what the try block leaves in `error`.          *)
(*   "none"            no error: parsed was accepted as self.result        *)
(*   otherwise         str(error)                                          *)
(* A list of the wrong length or a non-list raises ValueError inside the   *)
(* inner try; only JSONDecodeError is caught there, so the ValueError      *)
(* reaches the outer handler like an exception of the client.              *)
(***************************************************************************)
\* line 133 without the length test
ShapeAcceptedAnyList(o, batch) == o.json = "list"

ShapeAccepted(o, batch) == o.json = "list" /\ Len(o.parsed) = Len(batch)

ErrorOf(o, batch) ==
    IF o.kind = "raise" THEN o.text
    ELSE IF o.json = "invalid" THEN "JSON parse error"
    ELSE IF ShapeAccepted(o, batch) THEN "none"
    ELSE "Response format error"

\* the error went through the outer `except Exception` handler
ReachesOuterHandler(o, batch) ==
    o.kind = "raise" \/ (o.json # "invalid" /\ ~ShapeAccepted(o, batch))

IsRateLimit(o, batch) ==
    ReachesOuterHandler(o, batch) /\ ContainsRateLimit(Lower(ErrorOf(o, batch)))

ReplyClass(o, batch) ==
    IF o.kind = "raise" THEN "exception"
    ELSE IF o.json = "invalid" THEN "invalid_json"
    ELSE IF o.json = "object" THEN "not_a_list"
    ELSE IF Len(o.parsed) # Len(batch) THEN "wrong_length"
    ELSE IF o.parsed = MapSeq(Labelled, batch) THEN "faithful"
    ELSE "other_ids"

(***************************************************************************)
(* StatusTracker after the handlers of lines 144-155.                      *)
(***************************************************************************)
\* lines 148-155 without line 153
CountErrorWithoutCorrection(st, o, batch, t) ==
    IF ~ReachesOuterHandler(o, batch) THEN st
    ELSE IF IsRateLimit(o, batch)
         THEN [st EXCEPT !.num_rate_limit_errors = @ + 1,
                         !.num_api_errors = @ + 1,
                         !.time_of_last_rate_limit_error = t]
         ELSE [st EXCEPT !.num_api_errors = @ + 1]

\* lines 144-155 with the handler of lines 139-142 removed: a
\* JSONDecodeError reaches the outer handler
CountErrorWithoutInnerHandler(st, o, batch, t) ==
    IF ErrorOf(o, batch) = "none" THEN st
    ELSE IF IsRateLimit(o, batch)
         THEN [st EXCEPT !.num_rate_limit_errors = @ + 1,
                         !.time_of_last_rate_limit_error = t]
         ELSE [st EXCEPT !.num_api_errors = @ + 1]

CountError(st, o, batch, t) ==
    IF ~ReachesOuterHandler(o, batch) THEN st
    ELSE IF IsRateLimit(o, batch)
         THEN [st EXCEPT !.num_rate_limit_errors = @ + 1,
                         !.time_of_last_rate_limit_error = t]
         ELSE [st EXCEPT !.num_api_errors = @ + 1]

(***************************************************************************)
(* APIRequest.call_api, lines 157-177: the completion of one call of       *)
(* request `task` with outcome o, as the new values of the state it        *)
(* touches.  C is the record of the current values.                        *)
(***************************************************************************)
\* lines 159-161 releasing the in-progress slot on a retry
RequeueAndRelease(C, task) ==
    [C EXCEPT !.attempts_left[task] = @ - 1,
              !.queue_of_requests_to_retry = Append(@, task),
              !.status_tracker.num_tasks_in_progress = @ - 1]

\* lines 159-161 without line 160
RequeueKeepingAttempts(C, task) ==
    [C EXCEPT !.queue_of_requests_to_retry = Append(@, task)]

Requeue(C, task) ==
    [C EXCEPT !.attempts_left[task] = @ - 1,
              !.queue_of_requests_to_retry = Append(@, task)]

\* lines 162-172 followed by line 161
AbandonAndRequeue(C, task, text) ==
    [C EXCEPT !.all_results =
                  @ \o [k \in 1 .. Len(BatchOf(task))
                            |-> Fallback(BatchOf(task)[k], text)],
              !.status_tracker.num_tasks_failed = @ + 1,
              !.status_tracker.num_tasks_in_progress = @ - 1,
              !.queue_of_requests_to_retry = Append(@, task)]

Abandon(C, task, text) ==
    [C EXCEPT !.all_results =
                  @ \o [k \in 1 .. Len(BatchOf(task))
                            |-> Fallback(BatchOf(task)[k], text)],
              !.status_tracker.num_tasks_failed = @ + 1,
              !.status_tracker.num_tasks_in_progress = @ - 1]

\* lines 173-177 without line 174
SucceedWithoutResults(C, task, result) ==
    [C EXCEPT !.status_tracker.num_tasks_succeeded = @ + 1,
              !.status_tracker.num_tasks_in_progress = @ - 1]

Succeed(C, task, result) ==
    [C EXCEPT !.all_results = @ \o result,
              !.status_tracker.num_tasks_succeeded = @ + 1,
              !.status_tracker.num_tasks_in_progress = @ - 1]

\* A resolved request is referenced by nothing any more: the model forgets
\* its fields.
Discard(C, task) ==
    [C EXCEPT !.attempts_left[task] = 0, !.error_msg[task] = ""]

\* lines 157-177 with a reply that is not JSON never retried
ResolveWithoutRetryOfParseFailure(C, task, o) ==
    LET error == ErrorOf(o, BatchOf(task)) IN
    IF error # "none"
    THEN LET E == [C EXCEPT !.error_msg[task] = error] IN
         IF E.attempts_left[task] > 0 /\ o.json # "invalid"
         THEN Requeue(E, task)
         ELSE Discard(Abandon(E, task, error), task)
    ELSE Discard(Succeed(C, task, o.parsed), task)

Resolve(C, task, o) ==
    LET error == ErrorOf(o, BatchOf(task)) IN
    IF error # "none"
    THEN LET E == [C EXCEPT !.error_msg[task] = error] IN
         IF E.attempts_left[task] > 0
         THEN Requeue(E, task)
         ELSE Discard(Abandon(E, task, error), task)
    ELSE Discard(Succeed(C, task, o.parsed), task)

(***************************************************************************)
(* The control loop, lines 237-321, one operator per block.  L is the      *)
(* record of the values the loop works on.                                 *)
(***************************************************************************)
\* lines 243: a fresh batch is what this turn takes
PullsFresh(L) ==
    /\ L.next_request = NoRequest
    /\ L.queue_of_requests_to_retry = <<>>
    /\ ~L.batches_exhausted
    /\ L.batch_idx < TotalBatches

\* lines 244-263 with line 245 ahead of line 244
NewRequestAfterIncrement(L) ==
    LET task == L.next_task_id IN
    [L EXCEPT !.batch_idx = @ + 1,
              !.batches_exhausted = (L.batch_idx + 1 >= TotalBatches),
              !.next_task_id = @ + 1,
              !.next_request = task,
              !.batch_items[task] = L.batch_idx + 1,
              !.attempts_left[task] = max_attempts,
              !.status_tracker.num_tasks_started = @ + 1,
              !.status_tracker.num_tasks_in_progress = @ + 1]

\* lines 244-263
NewRequest(L) ==
    LET task == L.next_task_id IN
    [L EXCEPT !.batch_idx = @ + 1,
              !.batches_exhausted = (L.batch_idx + 1 >= TotalBatches),
              !.next_task_id = @ + 1,
              !.next_request = task,
              !.batch_items[task] = L.batch_idx,
              !.attempts_left[task] = max_attempts,
              !.status_tracker.num_tasks_started = @ + 1,
              !.status_tracker.num_tasks_in_progress = @ + 1]

\* lines 239-263 with a retry counted as a started task
GetNextRequestCountingRetries(L) ==
    IF L.next_request # NoRequest THEN L
    ELSE IF L.queue_of_requests_to_retry # <<>>
    THEN [L EXCEPT !.next_request = Head(L.queue_of_requests_to_retry),
                   !.queue_of_requests_to_retry = Tail(@),
                   !.status_tracker.num_tasks_started = @ + 1,
                   !.status_tracker.num_tasks_in_progress = @ + 1]
    ELSE IF PullsFresh(L) THEN NewRequest(L)
    ELSE L

\* lines 239-263
GetNextRequest(L) ==
    IF L.next_request # NoRequest THEN L
    ELSE IF L.queue_of_requests_to_retry # <<>>
    THEN [L EXCEPT !.next_request = Head(L.queue_of_requests_to_retry),
                   !.queue_of_requests_to_retry = Tail(@)]
    ELSE IF PullsFresh(L) THEN NewRequest(L)
    ELSE L

\* line 270
CheckpointDue(L) ==
    input_file /\ (L.batch_idx - L.last_checkpoint_batch) >= CHECKPOINT_INTERVAL

\* lines 274-276 saving the batch cursor as the count of completed batches
SaveCheckpointWithCursor(L) ==
    [L EXCEPT !.checkpoint_file =
                  [exists |-> TRUE,
                   results |-> L.all_results,
                   processed_batch_idx |-> L.batch_idx,
                   total_batches |-> TotalBatches],
              !.last_checkpoint_batch = L.batch_idx]

\* lines 274-276 and CheckpointManager.save
SaveCheckpoint(L) ==
    [L EXCEPT !.checkpoint_file =
                  [exists |-> TRUE,
                   results |-> L.all_results,
                   processed_batch_idx |-> Len(L.all_results) \div BATCH_SIZE,
                   total_batches |-> TotalBatches],
              !.last_checkpoint_batch = L.batch_idx]

\* lines 279-289, levels in 1/60
\* lines 281-288 without the min(..., capacity)
RefillUncapped(level, capacity, seconds) == level + capacity * seconds

\* lines 281-288 without the refill term
RefillNothing(level, capacity, seconds) ==
    Min(level, capacity * SECONDS_PER_MINUTE)

Refill(level, capacity, seconds) ==
    Min(level + capacity * seconds, capacity * SECONDS_PER_MINUTE)

UpdateRateLimits(L, current_time) ==
    LET seconds_since_update == current_time - L.last_update_time IN
    [L EXCEPT !.available_request_capacity =
                  Refill(@, max_requests_per_minute, seconds_since_update),
              !.available_token_capacity =
                  Refill(@, max_tokens_per_minute, seconds_since_update),
              !.last_update_time = current_time]

\* lines 293-294 without line 294
CanAdmitIgnoringTokens(L) ==
    /\ L.next_request # NoRequest
    /\ L.available_request_capacity >= 1 * SECONDS_PER_MINUTE

\* lines 293-294
CanAdmit(L) ==
    /\ L.next_request # NoRequest
    /\ L.available_request_capacity >= 1 * SECONDS_PER_MINUTE
    /\ L.available_token_capacity
           >= token_consumption(L.next_request) * SECONDS_PER_MINUTE

\* lines 296-308
\* lines 296-308 without line 296
DispatchKeepingRequestCapacity(L, current_time) ==
    LET task == L.next_request
        cost == token_consumption(task) IN
    [L EXCEPT !.available_token_capacity = @ - cost * SECONDS_PER_MINUTE,
              !.in_flight = @ \cup {task},
              !.next_request = NoRequest,
              !.num_calls[task] = @ + 1,
              !.calls_at[current_time] = @ + 1,
              !.tokens_at[current_time] = @ + cost]

Dispatch(L, current_time) ==
    LET task == L.next_request
        cost == token_consumption(task) IN
    [L EXCEPT !.available_request_capacity = @ - 1 * SECONDS_PER_MINUTE,
              !.available_token_capacity = @ - cost * SECONDS_PER_MINUTE,
              !.in_flight = @ \cup {task},
              !.next_request = NoRequest,
              !.num_calls[task] = @ + 1,
              !.calls_at[current_time] = @ + 1,
              !.tokens_at[current_time] = @ + cost]

IssueRequest(L, current_time) ==
    IF CanAdmit(L) THEN Dispatch(L, current_time) ELSE L

\* line 310 without its first conjunct
ExitTestIgnoringInProgress(L) ==
    /\ L.batches_exhausted
    /\ L.queue_of_requests_to_retry = <<>>

\* line 310
ExitTest(L) ==
    /\ L.status_tracker.num_tasks_in_progress = 0
    /\ L.batches_exhausted
    /\ L.queue_of_requests_to_retry = <<>>

\* lines 278-313: from the refill to the exit or the idle sleep
TurnTail(L, current_time) ==
    LET A == IssueRequest(UpdateRateLimits(L, current_time), current_time) IN
    [A EXCEPT !.pc = IF ExitTest(A) THEN "done" ELSE "idle_sleep"]

\* lines 238-313: a loop turn up to its first await
Turn(L, current_time) ==
    LET G == GetNextRequest(L) IN
    IF PullsFresh(L) /\ CheckpointDue(G)
    THEN [G EXCEPT !.pc = "checkpoint_pause"]
    ELSE TurnTail(G, current_time)

(***************************************************************************)
(* The state the loop and the completions work on, as a record, and its    *)
(* write-back (of the value of R, computed once).                          *)
(***************************************************************************)
Cur ==
    [pc |-> pc,
     next_request |-> next_request,
     queue_of_requests_to_retry |-> queue_of_requests_to_retry,
     next_task_id |-> next_task_id,
     status_tracker |-> status_tracker,
     available_request_capacity |-> available_request_capacity,
     available_token_capacity |-> available_token_capacity,
     last_update_time |-> last_update_time,
     all_results |-> all_results,
     batch_idx |-> batch_idx,
     batches_exhausted |-> batches_exhausted,
     last_checkpoint_batch |-> last_checkpoint_batch,
     wake_time |-> wake_time,
     batch_items |-> batch_items,
     attempts_left |-> attempts_left,
     error_msg |-> error_msg,
     in_flight |-> in_flight,
     checkpoint_file |-> checkpoint_file,
     num_calls |-> num_calls,
     parse_failures |-> parse_failures,
     calls_at |-> calls_at,
     tokens_at |-> tokens_at]

Commit(R) ==
    \E V \in {R} :
        /\ pc' = V.pc
        /\ next_request' = V.next_request
        /\ queue_of_requests_to_retry' = V.queue_of_requests_to_retry
        /\ next_task_id' = V.next_task_id
        /\ status_tracker' = V.status_tracker
        /\ available_request_capacity' = V.available_request_capacity
        /\ available_token_capacity' = V.available_token_capacity
        /\ last_update_time' = V.last_update_time
        /\ all_results' = V.all_results
        /\ batch_idx' = V.batch_idx
        /\ batches_exhausted' = V.batches_exhausted
        /\ last_checkpoint_batch' = V.last_checkpoint_batch
        /\ wake_time' = V.wake_time
        /\ batch_items' = V.batch_items
        /\ attempts_left' = V.attempts_left
        /\ error_msg' = V.error_msg
        /\ in_flight' = V.in_flight
        /\ checkpoint_file' = V.checkpoint_file
        /\ num_calls' = V.num_calls
        /\ parse_failures' = V.parse_failures
        /\ calls_at' = V.calls_at
        /\ tokens_at' = V.tokens_at

(***************************************************************************)
(* utils.StatusTracker() and lines 200-233: the state of a run when it     *)
(* enters the loop, started at time t with the checkpoint file `file`      *)
(* on disk.                                                                *)
(***************************************************************************)
NewStatusTracker ==
    [num_tasks_started |-> 0, num_tasks_in_progress |-> 0,
     num_tasks_succeeded |-> 0, num_tasks_failed |-> 0,
     num_rate_limit_errors |-> 0, num_api_errors |-> 0,
     time_of_last_rate_limit_error |-> 0]

LoadsCheckpoint(enabled, file) == enabled /\ file.exists

\* lines 224-233 without lines 229-230
StartStateFromFirstBatch(t, n, rpm, tpm, enabled, file) ==
    LET resume == LoadsCheckpoint(enabled, file) IN
    [pc |-> "start",
     next_request |-> NoRequest,
     queue_of_requests_to_retry |-> <<>>,
     next_task_id |-> 0,
     status_tracker |-> NewStatusTracker,
     available_request_capacity |-> rpm * SECONDS_PER_MINUTE,
     available_token_capacity |-> tpm * SECONDS_PER_MINUTE,
     last_update_time |-> t,
     all_results |-> IF resume THEN file.results ELSE <<>>,
     batch_idx |-> 0,
     batches_exhausted |-> FALSE,
     last_checkpoint_batch |-> 0,
     wake_time |-> 0,
     batch_items |-> [k \in TaskIds |-> NoBatch],
     attempts_left |-> [k \in TaskIds |-> 0],
     error_msg |-> [k \in TaskIds |-> ""],
     in_flight |-> {},
     checkpoint_file |-> file,
     num_calls |-> [k \in TaskIds |-> 0],
     parse_failures |-> 0,
     calls_at |-> [k \in Clock |-> 0],
     tokens_at |-> [k \in Clock |-> 0]]

StartState(t, n, rpm, tpm, enabled, file) ==
    LET resume == LoadsCheckpoint(enabled, file)
        idx == IF resume THEN file.processed_batch_idx ELSE 0 IN
    [pc |-> "start",
     next_request |-> NoRequest,
     queue_of_requests_to_retry |-> <<>>,
     next_task_id |-> 0,
     status_tracker |-> NewStatusTracker,
     available_request_capacity |-> rpm * SECONDS_PER_MINUTE,
     available_token_capacity |-> tpm * SECONDS_PER_MINUTE,
     last_update_time |-> t,
     all_results |-> IF resume THEN file.results ELSE <<>>,
     batch_idx |-> idx,
     batches_exhausted |-> resume /\ idx >= NumBatches(n),
     last_checkpoint_batch |-> idx,
     wake_time |-> 0,
     batch_items |-> [k \in TaskIds |-> NoBatch],
     attempts_left |-> [k \in TaskIds |-> 0],
     error_msg |-> [k \in TaskIds |-> ""],
     in_flight |-> {},
     checkpoint_file |-> file,
     num_calls |-> [k \in TaskIds |-> 0],
     parse_failures |-> 0,
     calls_at |-> [k \in Clock |-> 0],
     tokens_at |-> [k \in Clock |-> 0]]

\* the state at the entry of the loop of a run started at the first clock
\* reading with `file` on disk
StartsWith(file) ==
    /\ now = TimeStep
    /\ restarts = 0
    /\ LET S == StartState(now, num_items, max_requests_per_minute,
                           max_tokens_per_minute, input_file, file) IN
           /\ pc = S.pc
           /\ next_request = S.next_request
           /\ queue_of_requests_to_retry = S.queue_of_requests_to_retry
           /\ next_task_id = S.next_task_id
           /\ status_tracker = S.status_tracker
           /\ available_request_capacity = S.available_request_capacity
           /\ available_token_capacity = S.available_token_capacity
           /\ last_update_time = S.last_update_time
           /\ all_results = S.all_results
           /\ batch_idx = S.batch_idx
           /\ batches_exhausted = S.batches_exhausted
           /\ last_checkpoint_batch = S.last_checkpoint_batch
           /\ wake_time = S.wake_time
           /\ batch_items = S.batch_items
           /\ attempts_left = S.attempts_left
           /\ error_msg = S.error_msg
           /\ in_flight = S.in_flight
           /\ checkpoint_file = S.checkpoint_file
           /\ num_calls = S.num_calls
           /\ parse_failures = S.parse_failures
           /\ calls_at = S.calls_at
           /\ tokens_at = S.tokens_at
           /\ start_idx = S.batch_idx
    /\ loaded = LoadsCheckpoint(input_file, file)

\* the state at the entry of the loop of a first run (no checkpoint file)
FirstRun == StartsWith(NoFile)

Init ==
    /\ num_items \in 0 .. MaxItems
    /\ max_attempts \in 0 .. MaxAttempts
    /\ NumBatches(num_items) * (1 + max_attempts) <= MaxCalls
    /\ \E lim \in Limits :
           /\ max_requests_per_minute = lim[1]
           /\ max_tokens_per_minute = lim[2]
    /\ input_file \in BOOLEAN
    /\ long_item = NoId
    /\ FirstRun

\* runs with checkpointing against an endpoint that always answers faithfully
InitReliable ==
    /\ num_items \in 1 .. MaxItemsReliable
    /\ max_attempts = 0
    /\ max_requests_per_minute = 60
    /\ max_tokens_per_minute = 1000
    /\ input_file = TRUE
    /\ long_item = NoId
    /\ FirstRun

Suspended == pc \in {"idle_sleep", "checkpoint_pause", "cooldown"}

(***************************************************************************)
(* Actions of the control loop.                                            *)
(***************************************************************************)
\* line 237, first turn
EnterLoop ==
    /\ pc = "start"
    /\ Commit(Turn(Cur, now))
    /\ UNCHANGED <<inputs, now, restarts, start_idx, loaded>>

\* lines 313-321 after the idle sleep: the cooldown test, then either the
\* cooldown sleep or the next turn
CoolingDown(st, current_time) ==
    /\ current_time - st.time_of_last_rate_limit_error
           < SECONDS_TO_PAUSE_AFTER_RATE_LIMIT
    /\ st.time_of_last_rate_limit_error > 0

AfterIdleSleep ==
    /\ pc = "idle_sleep"
    /\ IF CoolingDown(status_tracker, now)
       THEN Commit([Cur EXCEPT
                !.pc = "cooldown",
                !.wake_time = now + (SECONDS_TO_PAUSE_AFTER_RATE_LIMIT
                    - (now - status_tracker.time_of_last_rate_limit_error))])
       ELSE Commit(Turn(Cur, now))
    /\ UNCHANGED <<inputs, now, restarts, start_idx, loaded>>

\* line 321 returns: the next turn
AfterCooldown ==
    /\ pc = "cooldown"
    /\ now >= wake_time
    /\ Commit(Turn(Cur, now))
    /\ UNCHANGED <<inputs, now, restarts, start_idx, loaded>>

\* line 272 returns: lines 274-276, then the rest of the turn
AfterCheckpointPause ==
    /\ pc = "checkpoint_pause"
    /\ Commit(TurnTail(SaveCheckpoint(Cur), now))
    /\ UNCHANGED <<inputs, now, restarts, start_idx, loaded>>

\* lines 323-329 without lines 326-327
ReturnWithoutCleanup ==
    /\ pc = "done"
    /\ Commit([Cur EXCEPT !.pc = "returned"])
    /\ UNCHANGED <<inputs, now, restarts, start_idx, loaded>>

\* lines 323-329: CheckpointManager.cleanup and the return
Return ==
    /\ pc = "done"
    /\ Commit([Cur EXCEPT !.pc = "returned",
                          !.checkpoint_file = IF input_file THEN NoFile ELSE @])
    /\ UNCHANGED <<inputs, now, restarts, start_idx, loaded>>

(***************************************************************************)
(* The completion of the call of request `task`: call_api from the return  *)
(* of its await (line 110) to its end.                                     *)
(***************************************************************************)
CallApi(task, o) ==
    /\ Suspended
    /\ task \in in_flight
    /\ LET batch == BatchOf(task)
           C == [Cur EXCEPT !.in_flight = @ \ {task},
                            !.status_tracker = CountError(@, o, batch, now),
                            !.parse_failures =
                                IF ReplyClass(o, batch) = "invalid_json"
                                THEN @ + 1 ELSE @] IN
           /\ Commit(Resolve(C, task, o))
    /\ UNCHANGED <<inputs, now, restarts, start_idx, loaded>>

Complete ==
    \E task \in TaskIds : \E o \in Outcomes(BatchOf(task)) : CallApi(task, o)

FaithfulOutcome(batch) ==
    [kind |-> "text", text |-> "", json |-> "list",
     parsed |-> MapSeq(Labelled, batch)]

CompleteFaithfully ==
    \E task \in TaskIds : CallApi(task, FaithfulOutcome(BatchOf(task)))

(***************************************************************************)
(* Time passes while the loop sleeps.                                      *)
(***************************************************************************)
LastMinute(log, t) ==
    [k \in Clock |-> IF k > t - SECONDS_PER_MINUTE THEN log[k] ELSE 0]

Tick ==
    /\ Suspended
    /\ now + TimeStep <= MaxTime
    /\ now' = now + TimeStep
    /\ calls_at' = LastMinute(calls_at, now')
    /\ tokens_at' = LastMinute(tokens_at, now')
    /\ UNCHANGED <<inputs, checkpoint_file, restarts, locals, requests,
                   start_idx, loaded, num_calls, parse_failures>>

(***************************************************************************)
(* The process is killed while a checkpoint file exists, and the job is    *)
(* started again with the same arguments: lines 200-233 with the file on   *)
(* disk.  The calls in flight die with the process.                        *)
(***************************************************************************)
Restart ==
    /\ restarts < MaxRestarts
    /\ pc # "returned"
    /\ checkpoint_file.exists
    /\ restarts' = restarts + 1
    /\ LET S == StartState(now, num_items, max_requests_per_minute,
                           max_tokens_per_minute, input_file, checkpoint_file) IN
           /\ Commit(S)
           /\ start_idx' = S.batch_idx
           /\ loaded' = LoadsCheckpoint(input_file, checkpoint_file)
    /\ UNCHANGED <<inputs, now>>

Next ==
    \/ EnterLoop
    \/ AfterIdleSleep
    \/ AfterCooldown
    \/ AfterCheckpointPause
    \/ Return
    \/ Complete
    \/ Tick

Spec == Init /\ [][Next]_vars

NextReliable ==
    \/ EnterLoop
    \/ AfterIdleSleep
    \/ AfterCheckpointPause
    \/ Return
    \/ CompleteFaithfully
    \/ Tick
    \/ Restart

SpecRestart == InitReliable /\ [][NextReliable]_vars

(***************************************************************************)
(* Runs that find a checkpoint file when they start (lines 224-233): the   *)
(* file of k batches completed in backlog order.  For k up to the number   *)
(* of batches it is what an interrupted run over the same input can have   *)
(* left; for a larger k it was left by a job over a longer input with the  *)
(* same file name.                                                         *)
(***************************************************************************)
CheckpointOf(k) ==
    [exists |-> TRUE,
     results |-> [i \in 1 .. (k * BATCH_SIZE) |-> Labelled(i)],
     processed_batch_idx |-> k,
     total_batches |-> Max(k, TotalBatches)]

InitResume ==
    /\ num_items \in 1 .. MaxItems
    /\ max_attempts \in 0 .. MaxAttempts
    /\ \E lim \in Limits :
           /\ max_requests_per_minute = lim[1]
           /\ max_tokens_per_minute = lim[2]
    /\ input_file = TRUE
    /\ long_item = NoId
    /\ \E k \in 0 .. MaxResumeIdx :
           /\ Max(TotalBatches - k, 0) * (1 + max_attempts) <= MaxCalls
           /\ StartsWith(CheckpointOf(k))

SpecResume == InitResume /\ [][Next]_vars

(***************************************************************************)
(* Runs under a clock that never stops, for the termination properties.    *)
(*                                                                         *)
(* The program reads time only through differences (lines 280, 316) and    *)
(* through the test time_of_last_rate_limit_error > 0 (line 318).  So a    *)
(* clock that advances by TimeStep is the same, to the program, as every   *)
(* stored timestamp moving TimeStep into the past; that keeps the readings *)
(* bounded while time passes for ever.  A timestamp stops ageing where its *)
(* age no longer matters: last_update_time at SECONDS_PER_MINUTE (the      *)
(* refill is capped at the capacity), a recorded rate-limit time at any    *)
(* positive value older than the cooldown, wake_time once it has passed.   *)
(***************************************************************************)
LimitsLive == { <<0, 1000>>, <<1, 1000>>, <<60, 300>>, <<60, 150>> }

InitLive ==
    /\ num_items \in 0 .. MaxItemsLive
    /\ max_attempts \in 0 .. MaxAttemptsLive
    /\ \E lim \in LimitsLive :
           /\ max_requests_per_minute = lim[1]
           /\ max_tokens_per_minute = lim[2]
    /\ input_file = TRUE
    /\ long_item \in {NoId, num_items}
    /\ FirstRun

Aged(st) ==
    [st EXCEPT !.time_of_last_rate_limit_error =
                   IF @ > 0 THEN Max(@ - TimeStep, 1) ELSE @]

ClockAdvances ==
    /\ Suspended
    /\ last_update_time' =
           Max(last_update_time - TimeStep, now - SECONDS_PER_MINUTE)
    /\ status_tracker' = Aged(status_tracker)
    /\ wake_time' = Max(wake_time - TimeStep, 0)
    /\ UNCHANGED <<inputs, environment, pc, next_request,
                   queue_of_requests_to_retry, next_task_id,
                   available_request_capacity, available_token_capacity,
                   all_results, batch_idx, batches_exhausted,
                   last_checkpoint_batch, requests, history>>

\* one outcome of each kind the completion distinguishes: an exception that
\* is a rate-limit error, one that is not, a text that is not JSON, and an
\* accepted reply
OutcomesLive(batch) ==
    { o \in Outcomes(batch) :
          ReplyClass(o, batch) \in {"exception", "invalid_json", "faithful"} }

CompleteTask(task) ==
    /\ task \in in_flight
    /\ \E o \in OutcomesLive(BatchOf(task)) : CallApi(task, o)

LoopStep ==
    \/ EnterLoop
    \/ AfterIdleSleep
    \/ AfterCooldown
    \/ AfterCheckpointPause
    \/ Return

TaskIdsLive == 0 .. (NumBatches(MaxItemsLive) - 1)

NextLive ==
    \/ EnterLoop
    \/ AfterIdleSleep
    \/ AfterCooldown
    \/ AfterCheckpointPause
    \/ Return
    \/ \E task \in TaskIdsLive : CompleteTask(task)
    \/ ClockAdvances

\* asyncio resumes a coroutine whose sleep is over; every outbound call
\* eventually completes; the clock keeps advancing
Fairness ==
    /\ WF_vars(LoopStep)
    /\ \A task \in TaskIdsLive : WF_vars(CompleteTask(task))
    /\ WF_vars(ClockAdvances)

SpecLive == InitLive /\ [][NextLive]_vars /\ Fairness

(***************************************************************************)
(* The same clock and scheduling, with every kind of outcome a call can    *)
(* come back with (Outcomes), limits that admit every request at once, and *)
(* the calls of a run bounded as in Init.                                  *)
(***************************************************************************)
LimitsKinds == { <<60, 1000>> }

InitKinds ==
    /\ num_items \in 1 .. MaxItemsLive
    /\ max_attempts \in 0 .. MaxAttempts
    /\ NumBatches(num_items) * (1 + max_attempts) <= MaxCalls
    /\ \E lim \in LimitsKinds :
           /\ max_requests_per_minute = lim[1]
           /\ max_tokens_per_minute = lim[2]
    /\ input_file = TRUE
    /\ long_item = NoId
    /\ FirstRun

CompleteTaskAnyKind(task) ==
    /\ task \in in_flight
    /\ \E o \in Outcomes(BatchOf(task)) : CallApi(task, o)

NextKinds ==
    \/ EnterLoop
    \/ AfterIdleSleep
    \/ AfterCooldown
    \/ AfterCheckpointPause
    \/ Return
    \/ \E task \in TaskIdsLive : CompleteTaskAnyKind(task)
    \/ ClockAdvances

FairnessKinds ==
    /\ WF_vars(LoopStep)
    /\ \A task \in TaskIdsLive : WF_vars(CompleteTaskAnyKind(task))
    /\ WF_vars(ClockAdvances)

SpecKinds == InitKinds /\ [][NextKinds]_vars /\ FairnessKinds

(***************************************************************************)
(* Vocabulary of the properties.                                           *)
(***************************************************************************)
RECURSIVE SumOver(_, _)
SumOver(f, S) ==
    IF S = {} THEN 0
    ELSE LET x == CHOOSE y \in S : TRUE IN f[x] + SumOver(f, S \ {x})

\* the clock readings of the 60 seconds that start at w
Window(w) == { t \in Clock : w <= t /\ t < w + SECONDS_PER_MINUTE }

Occurrences(results, id) ==
    Cardinality({ k \in 1 .. Len(results) : results[k].id = id })

ItemIds == 1 .. num_items

LoopExited == pc \in {"done", "returned"}

\* request `task` of this run was abandoned: its fallback records are in
\* the result collection
Abandoned(task) ==
    /\ task < next_task_id
    /\ \E k \in 1 .. Len(all_results) :
           /\ all_results[k].levels = "null"
           /\ all_results[k].id = BatchOf(task)[1]

\* all records of batch b are in `results`
BatchIn(b, results) ==
    \A k \in 1 .. Len(Batch(num_items, b)) :
        Occurrences(results, Batch(num_items, b)[k]) >= 1

BatchIndexes == 0 .. (TotalBatches - 1)

\* this step starts call_api for some request (lines 299-307)
Dispatches == \E task \in TaskIds : num_calls'[task] > num_calls[task]

\* request `task` is held by the loop, queued for a retry or in flight
Live(task) ==
    \/ next_request = task
    \/ \E k \in 1 .. Len(queue_of_requests_to_retry) :
           queue_of_requests_to_retry[k] = task
    \/ task \in in_flight

\* calls started so far, over the requests created in this run
RECURSIVE CallsOfFirst(_)
CallsOfFirst(n) ==
    IF n = 0 THEN 0 ELSE num_calls[n - 1] + CallsOfFirst(n - 1)

CallsStarted == CallsOfFirst(next_task_id)

\* every request's token estimate is at most max_tokens_per_minute
TokensFit ==
    \A b \in BatchIndexes :
        token_count(Batch(num_items, b)) <= max_tokens_per_minute

(***************************************************************************)
(* C1.  Completeness: when a run that started without a checkpoint has     *)
(* left the loop, the result collection holds as many records as the       *)
(* input has items, whatever the calls came back with.                     *)
(***************************************************************************)
C1_Completeness ==
    (LoopExited /\ ~loaded) => Len(all_results) = num_items

\* a finished run over several batches with both parsed and fallback records
C1_Witness ==
    /\ pc = "done"
    /\ ~loaded
    /\ num_items > BATCH_SIZE
    /\ status_tracker.num_tasks_succeeded >= 1
    /\ status_tracker.num_tasks_failed >= 1
    /\ Len(all_results) = num_items

(***************************************************************************)
(* C2.  Identifier preservation: at the end of a run every input item's    *)
(* identifier is in exactly one record of the result collection.           *)
(***************************************************************************)
C2_IdentifierPreservation ==
    (LoopExited /\ ~loaded) =>
        \A id \in ItemIds : Occurrences(all_results, id) = 1

(***************************************************************************)
(* C3.  Retry bound: a request whose every call failed, and which was      *)
(* abandoned, had call_api started exactly max_attempts times.             *)
(***************************************************************************)
C3_RetryBound ==
    \A task \in TaskIds :
        (max_attempts >= 1 /\ Abandoned(task)) => num_calls[task] = max_attempts

\* what the code does instead: one call more than max_attempts
C3_CallsBeforeAbandon ==
    \A task \in TaskIds :
        Abandoned(task) => num_calls[task] = max_attempts + 1

(***************************************************************************)
(* C4.  Per-minute limits: in every 60-second window the calls dispatched  *)
(* number at most max_requests_per_minute and their token estimates sum to *)
(* at most max_tokens_per_minute.                                          *)
(***************************************************************************)
C4_WindowWithinLimits ==
    \A w \in Clock :
        /\ SumOver(calls_at, Window(w)) <= max_requests_per_minute
        /\ SumOver(tokens_at, Window(w)) <= max_tokens_per_minute

(***************************************************************************)
(* C4, amended.  The buckets start full and refill while they are drawn    *)
(* on, so with a clock that does not go backwards a 60-second window can   *)
(* hold the full bucket plus what is refilled during the window: at most   *)
(* twice the per-minute limit, for calls and for tokens.                   *)
(***************************************************************************)
C4_WindowWithinTwiceLimits ==
    \A w \in Clock :
        /\ SumOver(calls_at, Window(w)) <= 2 * max_requests_per_minute
        /\ SumOver(tokens_at, Window(w)) <= 2 * max_tokens_per_minute

\* a window that holds more calls than max_requests_per_minute: the full
\* bucket at its start and a call admitted on the refill
C4_Witness ==
    \E w \in Clock :
        /\ SumOver(calls_at, Window(w)) > max_requests_per_minute
        /\ calls_at[w] = max_requests_per_minute
        /\ last_update_time > w

(***************************************************************************)
(* C5.  Both budget levels stay between 0 and their capacity (levels in    *)
(* 1/60, so the capacity is max * 60).                                     *)
(***************************************************************************)
C5_BudgetWithinBounds ==
    /\ 0 <= available_request_capacity
    /\ available_request_capacity <= max_requests_per_minute * SECONDS_PER_MINUTE
    /\ 0 <= available_token_capacity
    /\ available_token_capacity <= max_tokens_per_minute * SECONDS_PER_MINUTE

\* a request bucket emptied, refilled by the time elapsed and emptied again
C5_Witness ==
    /\ last_update_time > TimeStep
    /\ calls_at[TimeStep] > 0
    /\ calls_at[last_update_time] > 0
    /\ available_request_capacity = 0

(***************************************************************************)
(* C6.  Checkpoint idempotence: a run that resumed from a checkpoint and   *)
(* ran to completion holds the identifier of every input item, as an       *)
(* uninterrupted run against the same (reliable) endpoint does.            *)
(***************************************************************************)
C6_ResumeKeepsAllIdentifiers ==
    (LoopExited /\ loaded) =>
        \A id \in ItemIds : Occurrences(all_results, id) >= 1

(***************************************************************************)
(* C7.  Loss bound: the batches whose records are in the result collection *)
(* but not in the checkpoint file number at most CHECKPOINT_INTERVAL.      *)
(***************************************************************************)
C7_LossWithinOneInterval ==
    (input_file /\ pc # "returned") =>
        Cardinality({ b \in BatchIndexes :
                        /\ BatchIn(b, all_results)
                        /\ ~BatchIn(b, checkpoint_file.results) })
            <= CHECKPOINT_INTERVAL

(***************************************************************************)
(* C8.  Format rejection: a reply that parses as JSON but is not a list of *)
(* as many records as the batch has items is never accepted.  No record of *)
(* it is appended; with an attempt left the request loses one attempt and  *)
(* goes to the end of the retry queue, the result collection unchanged;    *)
(* with none left it is abandoned into fallback records.                   *)
(***************************************************************************)
WrongShape(o, batch) ==
    /\ o.kind = "text"
    /\ \/ o.json = "object"
       \/ o.json = "list" /\ Len(o.parsed) # Len(batch)

RejectedAndRetried(task) ==
    /\ attempts_left'[task] = attempts_left[task] - 1
    /\ queue_of_requests_to_retry' = Append(queue_of_requests_to_retry, task)
    /\ all_results' = all_results
    /\ status_tracker'.num_tasks_in_progress = status_tracker.num_tasks_in_progress

RejectedAndAbandoned(task) ==
    /\ queue_of_requests_to_retry' = queue_of_requests_to_retry
    /\ Len(all_results') = Len(all_results) + Len(BatchOf(task))
    /\ SubSeq(all_results', 1, Len(all_results)) = all_results
    /\ \A k \in (Len(all_results) + 1) .. Len(all_results') :
           all_results'[k].levels = "null"
    /\ status_tracker'.num_tasks_failed = status_tracker.num_tasks_failed + 1
    /\ status_tracker'.num_tasks_succeeded = status_tracker.num_tasks_succeeded

C8_FormatRejection ==
    [][ \A task \in TaskIds : \A o \in Outcomes(BatchOf(task)) :
            ( /\ task \in in_flight
              /\ task \notin in_flight'
              /\ WrongShape(o, BatchOf(task))
              /\ CallApi(task, o) ) =>
                IF attempts_left[task] > 0
                THEN RejectedAndRetried(task)
                ELSE RejectedAndAbandoned(task) ]_vars

\* a request waiting in the retry queue after its first reply was rejected
\* for its shape
C8_Witness ==
    \E task \in TaskIds :
        /\ error_msg[task] = "Response format error"
        /\ max_attempts >= 2
        /\ attempts_left[task] = max_attempts - 1
        /\ queue_of_requests_to_retry = <<task>>
        /\ all_results = <<>>

(***************************************************************************)
(* C9.  Counter balance: in every state between two atomic steps,          *)
(* succeeded + failed + in progress = started.                             *)
(***************************************************************************)
C9_CounterBalance ==
    status_tracker.num_tasks_succeeded + status_tracker.num_tasks_failed
        + status_tracker.num_tasks_in_progress
    = status_tracker.num_tasks_started

\* a success, a retry waiting in the queue and a request still in progress,
\* all in one run
C9_Witness ==
    /\ status_tracker.num_tasks_started >= 2
    /\ status_tracker.num_tasks_succeeded >= 1
    /\ status_tracker.num_tasks_in_progress >= 1
    /\ queue_of_requests_to_retry # <<>>

(***************************************************************************)
(* C10.  Exit: when the loop has exited no request is held, queued for a   *)
(* retry or in flight, every request created is succeeded or abandoned,    *)
(* and every batch from the starting index on was turned into a request.   *)
(***************************************************************************)
C10_ExitMeansAllTerminal ==
    LoopExited =>
        /\ next_request = NoRequest
        /\ queue_of_requests_to_retry = <<>>
        /\ in_flight = {}
        /\ status_tracker.num_tasks_succeeded + status_tracker.num_tasks_failed
               = next_task_id
        /\ batch_idx >= TotalBatches
        /\ start_idx < TotalBatches => next_task_id = TotalBatches - start_idx

\* the loop has exited after several requests, one of them abandoned after
\* a retry
C10_Witness ==
    /\ pc = "done"
    /\ next_task_id >= 2
    /\ max_attempts >= 1
    /\ status_tracker.num_tasks_failed >= 1
    /\ status_tracker.num_tasks_succeeded >= 1

(***************************************************************************)
(* C11.  Termination: for a non-empty input whose token estimates are all  *)
(* at most max_tokens_per_minute, if every call eventually completes and   *)
(* the clock keeps advancing, the loop eventually exits with every request *)
(* succeeded or abandoned, whatever the calls come back with.              *)
(***************************************************************************)
AllResolved ==
    /\ LoopExited
    /\ status_tracker.num_tasks_succeeded + status_tracker.num_tasks_failed
           = TotalBatches

C11_EventuallyExits ==
    (num_items > 0 /\ TokensFit) => <>AllResolved

(***************************************************************************)
(* C11, amended.  The same, for max_requests_per_minute >= 1: the request  *)
(* bucket never holds more than max_requests_per_minute, and line 293      *)
(* admits only at a level of at least 1.                                   *)
(***************************************************************************)
C11_EventuallyExitsWithRequestBudget ==
    (num_items > 0 /\ TokensFit /\ max_requests_per_minute >= 1)
        => <>AllResolved

\* the loop has exited after a request went through a rate-limit error, the
\* cooldown and a retry, with a request bucket of one request per minute
C11_Witness ==
    /\ pc = "done"
    /\ max_requests_per_minute = 1
    /\ TotalBatches >= 2
    /\ status_tracker.num_rate_limit_errors >= 1
    /\ \E task \in TaskIds : num_calls[task] >= 2

(***************************************************************************)
(* C12.  Cooldown: no request, fresh or retried, is dispatched less than   *)
(* SECONDS_TO_PAUSE_AFTER_RATE_LIMIT seconds after the most recently       *)
(* recorded rate-limit error, in whichever sleep of the loop the error was *)
(* delivered.                                                              *)
(***************************************************************************)
C12_NoDispatchWithinCooldown ==
    [][ Dispatches =>
            (status_tracker.time_of_last_rate_limit_error > 0 =>
                 now - status_tracker.time_of_last_rate_limit_error
                     >= SECONDS_TO_PAUSE_AFTER_RATE_LIMIT) ]_vars

(***************************************************************************)
(* C13.  Retry then success: when a call of a request that failed before   *)
(* is accepted, the parsed records are appended once, one task is counted  *)
(* as succeeded and none as failed, and the request is gone from the       *)
(* loop; dispatching a retry does not count a started task.  So a run in   *)
(* which some request was retried and none was abandoned ends with as many *)
(* started and succeeded tasks as batches and as many records as items.    *)
(***************************************************************************)
SucceedsOnce(task, parsed) ==
    /\ all_results' = all_results \o parsed
    /\ status_tracker'.num_tasks_succeeded
           = status_tracker.num_tasks_succeeded + 1
    /\ status_tracker'.num_tasks_failed = status_tracker.num_tasks_failed
    /\ status_tracker'.num_tasks_started = status_tracker.num_tasks_started
    /\ ~Live(task)'

RetriedRunEndsClean ==
    ( /\ LoopExited
      /\ ~loaded
      /\ status_tracker.num_tasks_failed = 0
      /\ \E task \in TaskIds : num_calls[task] >= 2 ) =>
        /\ status_tracker.num_tasks_started = TotalBatches
        /\ status_tracker.num_tasks_succeeded = TotalBatches
        /\ Len(all_results) = num_items

C13_RetryThenSuccess ==
    /\ []RetriedRunEndsClean
    /\ [][ \A task \in TaskIds :
              /\ \A o \in Outcomes(BatchOf(task)) :
                     ( /\ task \in in_flight
                       /\ task \notin in_flight'
                       /\ num_calls[task] >= 2
                       /\ ShapeAccepted(o, BatchOf(task))
                       /\ CallApi(task, o) ) => SucceedsOnce(task, o.parsed)
              /\ (num_calls[task] >= 1 /\ num_calls'[task] > num_calls[task])
                     => status_tracker'.num_tasks_started
                            = status_tracker.num_tasks_started ]_vars

\* a finished run of two batches, one of them retried, none abandoned
C13_Witness ==
    /\ pc = "done"
    /\ TotalBatches >= 2
    /\ status_tracker.num_tasks_failed = 0
    /\ status_tracker.num_tasks_succeeded = 2
    /\ \E task \in TaskIds : num_calls[task] >= 2
    /\ Len(all_results) = num_items

(***************************************************************************)
(* C14.  Abandonment: a call that fails (an exception, a text that is not  *)
(* JSON, a reply of the wrong shape) while the request has attempts_left   *)
(* = 0 abandons the request in that step: one record per item of the       *)
(* batch is appended, in order, with the item's identifier, null labels    *)
(* and the text of this last error; num_tasks_failed rises by 1,           *)
(* num_tasks_in_progress falls by 1, and the retry queue is unchanged.     *)
(***************************************************************************)
AbandonedInOneStep(task, text) ==
    LET batch == BatchOf(task)
        base == Len(all_results) IN
    /\ Len(all_results') = base + Len(batch)
    /\ SubSeq(all_results', 1, base) = all_results
    /\ \A k \in 1 .. Len(batch) :
           /\ all_results'[base + k].id = batch[k]
           /\ all_results'[base + k].levels = "null"
           /\ all_results'[base + k].error = text
    /\ status_tracker'.num_tasks_failed = status_tracker.num_tasks_failed + 1
    /\ status_tracker'.num_tasks_in_progress
           = status_tracker.num_tasks_in_progress - 1
    /\ status_tracker'.num_tasks_succeeded
           = status_tracker.num_tasks_succeeded
    /\ queue_of_requests_to_retry' = queue_of_requests_to_retry
    /\ ~Live(task)'

C14_AbandonInOneStep ==
    [][ \A task \in TaskIds : \A o \in Outcomes(BatchOf(task)) :
            ( /\ task \in in_flight
              /\ task \notin in_flight'
              /\ attempts_left[task] = 0
              /\ ErrorOf(o, BatchOf(task)) # "none"
              /\ CallApi(task, o) ) =>
                AbandonedInOneStep(task, ErrorOf(o, BatchOf(task))) ]_vars

\* a two-item batch abandoned after its retries, all calls rate-limited:
\* two fallback records with the rate-limit text
C14_Witness ==
    /\ max_attempts >= 1
    /\ status_tracker.num_tasks_failed = 1
    /\ status_tracker.num_rate_limit_errors >= 2
    /\ status_tracker.num_api_errors = 0
    /\ all_results = << Fallback(1, "Rate limit reached"),
                        Fallback(2, "Rate limit reached") >>
    /\ queue_of_requests_to_retry = <<>>

(***************************************************************************)
(* C15.  Requeue: a call that fails while the request has attempts_left    *)
(* > 0 takes exactly one attempt from that request and appends the request *)
(* to the retry queue; num_tasks_in_progress, num_tasks_started,           *)
(* num_tasks_succeeded, num_tasks_failed and the result collection are     *)
(* unchanged.                                                              *)
(***************************************************************************)
RequeuedOnly(task) ==
    /\ attempts_left' = [attempts_left EXCEPT ![task] = @ - 1]
    /\ queue_of_requests_to_retry' = Append(queue_of_requests_to_retry, task)
    /\ status_tracker'.num_tasks_in_progress
           = status_tracker.num_tasks_in_progress
    /\ status_tracker'.num_tasks_started = status_tracker.num_tasks_started
    /\ status_tracker'.num_tasks_succeeded
           = status_tracker.num_tasks_succeeded
    /\ status_tracker'.num_tasks_failed = status_tracker.num_tasks_failed
    /\ all_results' = all_results

C15_RequeueFrame ==
    [][ \A task \in TaskIds : \A o \in Outcomes(BatchOf(task)) :
            ( /\ task \in in_flight
              /\ task \notin in_flight'
              /\ attempts_left[task] > 0
              /\ ErrorOf(o, BatchOf(task)) # "none"
              /\ CallApi(task, o) ) => RequeuedOnly(task) ]_vars

\* two requests failed once each and wait in the retry queue, in the order
\* of their failures, both still counted in progress
C15_Witness ==
    /\ Len(queue_of_requests_to_retry) = 2
    /\ \A k \in 1 .. 2 :
           attempts_left[queue_of_requests_to_retry[k]] = max_attempts - 1
    /\ status_tracker.num_tasks_in_progress = 2
    /\ status_tracker.num_tasks_started = 2
    /\ all_results = <<>>

(***************************************************************************)
(* C16.  Rate-limit accounting: a failed call whose error text contains    *)
(* "rate limit" in any letter case adds 1 to num_rate_limit_errors, leaves *)
(* num_api_errors as it was and sets time_of_last_rate_limit_error to the  *)
(* current time; any other failed call leaves num_rate_limit_errors and    *)
(* time_of_last_rate_limit_error as they were.  Hence, when every call     *)
(* started so far ended in a rate-limit error, num_api_errors is 0, and a  *)
(* request abandoned in such a run leaves num_rate_limit_errors at no less *)
(* than max_attempts.                                                      *)
(***************************************************************************)
CountedAsRateLimit ==
    /\ status_tracker'.num_rate_limit_errors
           = status_tracker.num_rate_limit_errors + 1
    /\ status_tracker'.num_api_errors = status_tracker.num_api_errors
    /\ status_tracker'.time_of_last_rate_limit_error = now

NotCountedAsRateLimit ==
    /\ status_tracker'.num_rate_limit_errors
           = status_tracker.num_rate_limit_errors
    /\ status_tracker'.time_of_last_rate_limit_error
           = status_tracker.time_of_last_rate_limit_error

AlwaysRateLimited ==
    (in_flight = {} /\ status_tracker.num_rate_limit_errors = CallsStarted) =>
        /\ status_tracker.num_api_errors = 0
        /\ status_tracker.num_tasks_failed >= 1 =>
               status_tracker.num_rate_limit_errors >= max_attempts

\* the call of `task` completes in this step, and fails
CallFails(task) ==
    /\ task \in in_flight
    /\ task \notin in_flight'
    /\ status_tracker'.num_tasks_succeeded = status_tracker.num_tasks_succeeded

\* str(error) of the call that fails in this step: what line 158 stored in
\* the request, or, if the request was abandoned, what line 167 wrote
FailureText(task) ==
    IF status_tracker'.num_tasks_failed = status_tracker.num_tasks_failed
    THEN error_msg'[task]
    ELSE all_results'[Len(all_results')].error

C16_RateLimitAccounting ==
    /\ []AlwaysRateLimited
    /\ [][ \A task \in TaskIds :
              CallFails(task) =>
                  IF ContainsRateLimit(Lower(FailureText(task)))
                  THEN CountedAsRateLimit
                  ELSE NotCountedAsRateLimit ]_vars

\* a rate-limit error recorded at the first clock reading and, later, a
\* failure of another kind that left that record alone
C16_Witness ==
    /\ now > TimeStep
    /\ status_tracker.time_of_last_rate_limit_error = TimeStep
    /\ status_tracker.num_rate_limit_errors = 1
    /\ status_tracker.num_api_errors = 0
    /\ TotalBatches = 1
    /\ error_msg[0] = "JSON parse error"
    /\ num_calls[0] = 2
    /\ attempts_left[0] = max_attempts - 2

(***************************************************************************)
(* C17.  Retry priority: whenever the loop dispatches a request built from *)
(* a fresh batch (its first call), the retry queue is empty at that        *)
(* moment, also when the fresh request was already held, unadmitted, when  *)
(* the retry arrived.                                                      *)
(***************************************************************************)
C17_NoFreshDispatchBeforeRetry ==
    [][ \A task \in TaskIds :
            (num_calls[task] = 0 /\ num_calls'[task] = 1) =>
                queue_of_requests_to_retry' = <<>> ]_vars

(***************************************************************************)
(* C18.  No loss through a checkpoint: in every checkpoint file, each      *)
(* batch of the backlog with an index below the saved processed_batch_idx  *)
(* has the records of all its items in the saved results.                  *)
(***************************************************************************)
C18_CountedBatchesAreSaved ==
    checkpoint_file.exists =>
        \A b \in BatchIndexes :
            b < checkpoint_file.processed_batch_idx =>
                BatchIn(b, checkpoint_file.results)

(***************************************************************************)
(* C19.  The saved count: in a run started without a checkpoint, every     *)
(* save writes the results so far and processed_batch_idx =                *)
(* len(results) div BATCH_SIZE, which is at most the number of requests    *)
(* resolved (succeeded or abandoned) at that time and at most the number   *)
(* of fresh batches pulled so far.                                         *)
(***************************************************************************)
Saves == pc = "checkpoint_pause" /\ pc' \in {"idle_sleep", "done"}

C19_SavedCountIsConservative ==
    [][ (Saves /\ ~loaded) =>
            /\ checkpoint_file'.exists
            /\ checkpoint_file'.results = all_results
            /\ checkpoint_file'.processed_batch_idx
                   = Len(all_results) \div BATCH_SIZE
            /\ checkpoint_file'.processed_batch_idx
                   <= status_tracker.num_tasks_succeeded
                          + status_tracker.num_tasks_failed
            /\ checkpoint_file'.processed_batch_idx <= batch_idx ]_vars

\* a checkpoint saved after one request was abandoned and while another is
\* still unresolved
C19_Witness ==
    /\ ~loaded
    /\ checkpoint_file.exists
    /\ checkpoint_file.processed_batch_idx = 1
    /\ checkpoint_file.results = all_results
    /\ status_tracker.num_tasks_failed = 1
    /\ status_tracker.num_tasks_in_progress >= 1
    /\ last_checkpoint_batch = batch_idx

(***************************************************************************)
(* C20.  Resume: a run that loaded a checkpoint with processed_batch_idx   *)
(* = k starts with the checkpoint's results as its result collection and   *)
(* only appends to them.  If k is below the number of batches, the fresh   *)
(* batches are pulled from index k on, in order, and no call is ever       *)
(* started for a batch below k; otherwise no request is created and no     *)
(* call started, and the run leaves the loop with exactly the checkpoint's *)
(* results.                                                                *)
(***************************************************************************)
LoadedResults == CheckpointOf(start_idx).results

\* the batch indexes for which a request exists: batch_idx was advanced
\* once per request created, from k
PulledFrom(k) ==
    /\ batch_idx = k + next_task_id
    /\ batch_idx <= TotalBatches
    /\ \A task \in TaskIds :
           (Live(task) \/ num_calls[task] > 0) => task < next_task_id

C20_ResumeFromCheckpoint ==
    loaded =>
        /\ pc = "start" =>
               /\ all_results = checkpoint_file.results
               /\ start_idx = checkpoint_file.processed_batch_idx
        /\ Len(all_results) >= Len(LoadedResults)
        /\ SubSeq(all_results, 1, Len(LoadedResults)) = LoadedResults
        /\ start_idx < TotalBatches => PulledFrom(start_idx)
        /\ start_idx >= TotalBatches =>
               /\ next_task_id = 0
               /\ CallsStarted = 0
               /\ pc \in {"start", "done", "returned"}
               /\ all_results = LoadedResults

\* a resumed run that skipped the first batch has exited with the loaded
\* records followed by those of the other batches
C20_Witness ==
    /\ loaded
    /\ pc = "done"
    /\ start_idx = 1
    /\ TotalBatches = 3
    /\ next_task_id = 2
    /\ Len(all_results) = num_items
    /\ all_results[BATCH_SIZE + 1].id > BATCH_SIZE

\* a run that found a checkpoint counting more batches than the input has
\* returned without a call
C20_WitnessAllProcessed ==
    /\ loaded
    /\ pc = "returned"
    /\ start_idx > TotalBatches
    /\ all_results = LoadedResults

(***************************************************************************)
(* C21.  Cleanup: with checkpointing on, the checkpoint file goes away     *)
(* only in the step that returns from the exited loop, when no request is  *)
(* held, queued for a retry or in flight and every request created is      *)
(* succeeded or abandoned; and after process_api_requests has returned no  *)
(* checkpoint file exists.                                                 *)
(***************************************************************************)
FileRemoved == checkpoint_file.exists /\ ~checkpoint_file'.exists

NoneLive ==
    /\ next_request = NoRequest
    /\ queue_of_requests_to_retry = <<>>
    /\ in_flight = {}
    /\ status_tracker.num_tasks_succeeded + status_tracker.num_tasks_failed
           = next_task_id

NoFileAfterReturn == (input_file /\ pc = "returned") => ~checkpoint_file.exists

C21_CleanupOnlyAfterExit ==
    /\ []NoFileAfterReturn
    /\ [][ FileRemoved =>
               /\ pc = "done"
               /\ pc' = "returned"
               /\ NoneLive ]_vars

\* a run that saved a checkpoint, had a request abandoned, and has
\* returned: the file is gone
C21_Witness ==
    /\ input_file
    /\ pc = "returned"
    /\ last_checkpoint_batch >= CHECKPOINT_INTERVAL
    /\ status_tracker.num_tasks_failed >= 1
    /\ ~checkpoint_file.exists

(***************************************************************************)
(* C22.  Atomic resolution: in every state between two atomic steps, each  *)
(* request created is either unresolved (held, queued or in flight, and    *)
(* counted in num_tasks_in_progress) or resolved with all of its effects.  *)
(* So in a run that loaded no checkpoint the resolved requests number      *)
(* num_tasks_succeeded + num_tasks_failed, the unresolved ones             *)
(* num_tasks_in_progress, and the result collection has exactly as many    *)
(* records as the resolved requests have items; a checkpoint save writes   *)
(* such a collection.                                                      *)
(***************************************************************************)
Resolved(task) == task < next_task_id /\ ~Live(task)

ResolvedTasks == { task \in TaskIds : Resolved(task) }

\* items of the resolved requests among the first n created
RECURSIVE ItemsResolvedOfFirst(_)
ItemsResolvedOfFirst(n) ==
    IF n = 0 THEN 0
    ELSE (IF Resolved(n - 1) THEN Len(BatchOf(n - 1)) ELSE 0)
             + ItemsResolvedOfFirst(n - 1)

ItemsResolved == ItemsResolvedOfFirst(next_task_id)

ResolutionIsWhole ==
    ~loaded =>
        /\ Cardinality(ResolvedTasks)
               = status_tracker.num_tasks_succeeded
                     + status_tracker.num_tasks_failed
        /\ next_task_id - Cardinality(ResolvedTasks)
               = status_tracker.num_tasks_in_progress
        /\ Len(all_results) = ItemsResolved

C22_AtomicResolution ==
    /\ []ResolutionIsWhole
    /\ [][ (Saves /\ ~loaded) =>
               Len(checkpoint_file'.results) = ItemsResolved ]_vars

\* a checkpoint holding the records of the one resolved request, saved
\* while two other requests were unresolved, one of them in flight
C22_Witness ==
    /\ ~loaded
    /\ checkpoint_file.exists
    /\ Len(checkpoint_file.results) = BATCH_SIZE
    /\ checkpoint_file.results = all_results
    /\ status_tracker.num_tasks_succeeded = 1
    /\ status_tracker.num_tasks_in_progress = 2
    /\ in_flight # {}

(***************************************************************************)
(* C23.  Admission: a step of the loop starts at most one call, of a fresh *)
(* request or of a retry.  It starts one only if the two levels, refilled  *)
(* for the time since the last update, are at least 1 request and at least *)
(* the request's token_consumption, and then leaves them at the refilled   *)
(* values less exactly 1 request and exactly token_consumption tokens.  A  *)
(* step that starts no call takes nothing from either level.  (Levels in   *)
(* 1/60.)                                                                  *)
(***************************************************************************)
RefilledRequests ==
    Min(available_request_capacity
            + max_requests_per_minute * (now - last_update_time),
        max_requests_per_minute * SECONDS_PER_MINUTE)

RefilledTokens ==
    Min(available_token_capacity
            + max_tokens_per_minute * (now - last_update_time),
        max_tokens_per_minute * SECONDS_PER_MINUTE)

\* this step starts exactly one call, that of request `task`
DispatchesOnly(task) ==
    /\ num_calls' = [num_calls EXCEPT ![task] = @ + 1]
    /\ in_flight' = in_flight \cup {task}
    /\ next_request' = NoRequest

AdmittedAndDeducted(task) ==
    LET cost == token_consumption(task) IN
    /\ RefilledRequests >= 1 * SECONDS_PER_MINUTE
    /\ RefilledTokens >= cost * SECONDS_PER_MINUTE
    /\ available_request_capacity' = RefilledRequests - 1 * SECONDS_PER_MINUTE
    /\ available_token_capacity' = RefilledTokens - cost * SECONDS_PER_MINUTE

NothingDeducted ==
    /\ available_request_capacity' >= available_request_capacity
    /\ available_token_capacity' >= available_token_capacity
    /\ in_flight' \subseteq in_flight

C23_AdmissionAndDeduction ==
    [][ IF Dispatches
        THEN \E task \in TaskIds :
                 /\ DispatchesOnly(task)
                 /\ AdmittedAndDeducted(task)
        ELSE NothingDeducted ]_vars

\* a retry was dispatched right after the first call failed: both calls
\* were charged to the request bucket of two, now empty, and both token
\* estimates to the token bucket
C23_Witness ==
    /\ max_requests_per_minute = 2
    /\ TotalBatches = 1
    /\ num_calls[0] = 2
    /\ 0 \in in_flight
    /\ last_update_time = TimeStep
    /\ available_request_capacity = 0
    /\ available_token_capacity
           = (max_tokens_per_minute - 2 * token_consumption(0))
                 * SECONDS_PER_MINUTE

(***************************************************************************)
(* C24.  Pull order: the requests of a run are built from consecutive      *)
(* batches in backlog order, one request per batch, from the starting      *)
(* index on: request 0 from the batch at the starting index, request 1     *)
(* from the next, and so on.  A request keeps its task_id and its batch    *)
(* through its retries, a step that dispatches a retry creates no request, *)
(* and num_tasks_started is the number of fresh batches pulled in the run. *)
(***************************************************************************)
FreshPulled == batch_idx - start_idx

PulledInOrder ==
    /\ next_task_id = FreshPulled
    /\ status_tracker.num_tasks_started = FreshPulled
    /\ \A task \in TaskIds :
           IF task < next_task_id
           THEN batch_items[task] = start_idx + task
           ELSE batch_items[task] = NoBatch /\ ~Live(task)

OneRequestPerPull ==
    /\ next_task_id' \in {next_task_id, next_task_id + 1}
    /\ batch_idx' - batch_idx = next_task_id' - next_task_id
    /\ next_task_id' > next_task_id =>
           /\ queue_of_requests_to_retry = <<>>
           /\ batch_items'[next_task_id] = batch_idx
    /\ \A task \in TaskIds :
           /\ task < next_task_id => batch_items'[task] = batch_items[task]
           /\ (num_calls[task] >= 1 /\ num_calls'[task] > num_calls[task])
                  => next_task_id' = next_task_id

C24_PulledInBacklogOrder ==
    /\ []PulledInOrder
    /\ [][OneRequestPerPull]_vars

\* a resumed run that started at batch 1: request 0, built from batch 1, is
\* in flight for the second time, and request 1 was built from batch 2
C24_Witness ==
    /\ loaded
    /\ start_idx = 1
    /\ next_task_id = 2
    /\ batch_items[0] = 1
    /\ batch_items[1] = 2
    /\ num_calls[0] = 2
    /\ 0 \in in_flight
    /\ status_tracker.num_tasks_started = 2

(***************************************************************************)
(* C25.  Empty input: a run over zero items that loaded no checkpoint      *)
(* treats the fresh backlog as exhausted, leaves the loop without starting *)
(* a call, and returns an empty result collection.                         *)
(***************************************************************************)
ReturnedEmpty ==
    /\ pc = "returned"
    /\ all_results = <<>>
    /\ CallsStarted = 0

C25_EmptyInputExits ==
    (num_items = 0 /\ ~loaded) => <>ReturnedEmpty

(***************************************************************************)
(* C26.  One failure policy: whatever the kind of failure (an exception of *)
(* the client with or without "rate limit" in its text, a reply that is    *)
(* not JSON, a reply of the wrong shape), a failed call with an attempt    *)
(* left requeues the request with one attempt less, and one with none left *)
(* abandons it into fallback records carrying the error text.  The failure *)
(* leaves the loop where it was and the other requests as they were, and   *)
(* if every call eventually completes the loop exits with every request    *)
(* succeeded or abandoned.                                                 *)
(***************************************************************************)
FailureKinds ==
    { "Connection error", "Rate limit reached", "JSON parse error",
      "Response format error" }

OthersUntouched(task) ==
    \A other \in TaskIds \ {task} :
        /\ Live(other)' = Live(other)
        /\ attempts_left'[other] = attempts_left[other]
        /\ error_msg'[other] = error_msg[other]

FailureHandled(task) ==
    /\ FailureText(task) \in FailureKinds
    /\ IF attempts_left[task] > 0
       THEN RequeuedOnly(task)
       ELSE AbandonedInOneStep(task, FailureText(task))
    /\ pc' = pc
    /\ OthersUntouched(task)

C26_FailureKindsHandledAlike ==
    /\ [][ \A task \in TaskIds : CallFails(task) => FailureHandled(task) ]_vars
    /\ <>AllResolved

\* a finished run in which all four kinds of failure occurred: one request
\* abandoned on a reply of the wrong shape after a connection error, the
\* other on a reply that is not JSON after a rate-limit error
C26_Witness ==
    /\ pc = "done"
    /\ max_attempts = 1
    /\ status_tracker.num_tasks_failed = 2
    /\ status_tracker.num_rate_limit_errors = 1
    /\ status_tracker.num_api_errors = 2
    /\ all_results[1].error = "Response format error"
    /\ all_results[Len(all_results)].error = "JSON parse error"

(***************************************************************************)
(* C27.  In progress means live: in every state between two atomic steps,  *)
(* num_tasks_in_progress is the number of requests held by the loop (0 or  *)
(* 1), plus those waiting in the retry queue, plus those in flight.  So    *)
(* num_tasks_in_progress = 0, the first conjunct of the exit test, never   *)
(* holds while a candidate is held or a retry is queued.                   *)
(***************************************************************************)
NumHeld == IF next_request = NoRequest THEN 0 ELSE 1

NumLive == NumHeld + Len(queue_of_requests_to_retry) + Cardinality(in_flight)

C27_InProgressCountsLive ==
    /\ status_tracker.num_tasks_in_progress = NumLive
    /\ status_tracker.num_tasks_in_progress = 0 =>
           /\ next_request = NoRequest
           /\ queue_of_requests_to_retry = <<>>
           /\ in_flight = {}

\* the loop sleeps holding a fresh request it could not admit while a
\* failed request waits in the retry queue and nothing is in flight
C27_Witness ==
    /\ pc = "idle_sleep"
    /\ next_request # NoRequest
    /\ num_calls[next_request] = 0
    /\ Len(queue_of_requests_to_retry) = 1
    /\ in_flight = {}
    /\ status_tracker.num_tasks_in_progress = 2

(***************************************************************************)
(* C28.  Oversize candidates: with max_requests_per_minute >= 1, a held    *)
(* candidate whose token_consumption is at most max_tokens_per_minute is   *)
(* eventually admitted.  A candidate whose token_consumption exceeds       *)
(* max_tokens_per_minute is never admitted: it stays held for ever, no     *)
(* later batch is pulled, no retry is taken from the queue, and the loop   *)
(* never exits.                                                            *)
(***************************************************************************)
Oversize(task) == token_consumption(task) > max_tokens_per_minute

HeldOversize == next_request # NoRequest /\ Oversize(next_request)

StaysHeld ==
    /\ next_request' = next_request
    /\ num_calls'[next_request] = num_calls[next_request]
    /\ next_task_id' = next_task_id
    /\ batch_idx' = batch_idx
    /\ Len(queue_of_requests_to_retry') >= Len(queue_of_requests_to_retry)
    /\ SubSeq(queue_of_requests_to_retry', 1, Len(queue_of_requests_to_retry))
           = queue_of_requests_to_retry
    /\ ~LoopExited'

\* a candidate is held that fits the token capacity, under a request
\* capacity of at least 1; it stops being held only by being admitted
HeldAdmissible ==
    /\ next_request # NoRequest
    /\ ~Oversize(next_request)
    /\ max_requests_per_minute >= 1

NoCallOfOversize == \A task \in TaskIds : Oversize(task) => num_calls[task] = 0

C28_AdmittedIffTokensFit ==
    /\ []NoCallOfOversize
    /\ [][HeldOversize => StaysHeld]_vars
    /\ []<>~HeldAdmissible

\* the candidate built from the last batch, which holds the long item, is
\* still held with the token bucket full again, behind it the first
\* request, which failed, waits in the retry queue
C28_Witness ==
    /\ pc = "idle_sleep"
    /\ next_request = 1
    /\ Oversize(1)
    /\ ~Oversize(0)
    /\ queue_of_requests_to_retry = <<0>>
    /\ in_flight = {}
    /\ available_token_capacity = max_tokens_per_minute * SECONDS_PER_MINUTE

(***************************************************************************)
(* C29.  Uncounted failures: a call that fails because the reply is not    *)
(* JSON takes a retry attempt like any failure but changes neither         *)
(* num_api_errors nor num_rate_limit_errors; a reply that parses to a      *)
(* non-list or to a list of the wrong length adds exactly 1 to             *)
(* num_api_errors.  So num_api_errors + num_rate_limit_errors is the       *)
(* number of failed calls less the number of replies that were not JSON.   *)
(***************************************************************************)
\* calls that have completed, and those of them that failed
CallsCompleted == CallsStarted - Cardinality(in_flight)

CallsFailed == CallsCompleted - status_tracker.num_tasks_succeeded

ErrorsCounted ==
    status_tracker.num_api_errors + status_tracker.num_rate_limit_errors

FailuresLessParseFailures == ErrorsCounted = CallsFailed - parse_failures

CountedByKind(task) ==
    /\ FailureText(task) = "JSON parse error" =>
           /\ status_tracker'.num_api_errors = status_tracker.num_api_errors
           /\ status_tracker'.num_rate_limit_errors
                  = status_tracker.num_rate_limit_errors
           /\ parse_failures' = parse_failures + 1
           /\ attempts_left[task] > 0 =>
                  attempts_left'[task] = attempts_left[task] - 1
    /\ FailureText(task) = "Response format error" =>
           /\ status_tracker'.num_api_errors
                  = status_tracker.num_api_errors + 1
           /\ status_tracker'.num_rate_limit_errors
                  = status_tracker.num_rate_limit_errors
           /\ parse_failures' = parse_failures

C29_ParseFailuresNotCounted ==
    /\ []FailuresLessParseFailures
    /\ [][ \A task \in TaskIds : CallFails(task) => CountedByKind(task) ]_vars

\* two failed calls of one request, the first on a reply that is not JSON,
\* the second on a reply of the wrong shape: one error counted
C29_Witness ==
    /\ parse_failures = 1
    /\ status_tracker.num_api_errors = 1
    /\ status_tracker.num_rate_limit_errors = 0
    /\ num_calls[0] = 2
    /\ error_msg[0] = "Response format error"
    /\ attempts_left[0] = max_attempts - 2
    /\ queue_of_requests_to_retry = <<0>>

=============================================================================
